---- MODULE Spec2Model ----
(***************************************************************************)
(* A model of the transport core of openlist_api (client.py): the session  *)
(* state of BaseClient, set_token, and a call through _request / get /     *)
(* post / put / delete, followed by the transport's answer and             *)
(* _handle_response.                                                       *)
(*                                                                         *)
(* Python values are tagged records.  Text that the code only passes on    *)
(* (tokens, header names and values, messages) is a TLA+ string; text the  *)
(* code or the JSON codec takes apart (URLs, response bodies) is a         *)
(* sequence of characters or of JSON tokens.                               *)
(***************************************************************************)
EXTENDS Integers, Sequences, FiniteSets, TLC

VARIABLES base_url, timeout, token, pc, sent, transport, outcome,
          last_set, json_fault_is_request_exception,
          attempts, entry, api, result, base_url_arg,
          resources, options, first, thread

vars == <<base_url, timeout, token, pc, sent, transport, outcome,
          last_set, json_fault_is_request_exception,
          attempts, entry, api, result, base_url_arg,
          resources, options, first, thread>>

\* what belongs to the application and to the OpenListClient around the
\* core: the clients its resource groups hold, the options object a caller
\* keeps between calls, the record of an earlier call, and a second thread
app == <<resources, options, first, thread>>

(***************************************************************************)
(* Bounds of the model.                                                    *)
(***************************************************************************)
\* set_token is tried with "" and with the tokens t1 .. t<NumTokens>
NumTokens == 2
\* a caller passes at most this many extra headers with one call
MaxExtraHeaders == 2

(***************************************************************************)
(* Python values.                                                          *)
(***************************************************************************)
PyNone == [t |-> "none"]
PyStr(s) == [t |-> "str", s |-> s]
PyInt(n) == [t |-> "int", n |-> n]
PyBool(b) == [t |-> "bool", b |-> b]
PyList(a) == [t |-> "list", a |-> a]
PyDict(m) == [t |-> "dict", m |-> m]

EmptyMap == [k \in {} |-> PyNone]

\* d[k] = v on a mapping from strings to values
MapSet(m, k, v) == [x \in (DOMAIN m) \cup {k} |-> IF x = k THEN v ELSE m[x]]

\* the truth value Python gives `if v:` for the values the model uses
Truthy(v) ==
  CASE v.t = "none" -> FALSE
    [] v.t = "str" -> v.s # ""
    [] v.t = "int" -> v.n # 0
    [] v.t = "bool" -> v.b
    [] v.t = "list" -> v.a # <<>>
    [] v.t = "dict" -> DOMAIN v.m # {}

(***************************************************************************)
(* JSON text is a sequence of tokens; json_dumps writes a value as text    *)
(* and json_loads reads text back, failing on text that is not JSON.       *)
(***************************************************************************)
LBrace == [k |-> "{"]
RBrace == [k |-> "}"]
LBrack == [k |-> "["]
RBrack == [k |-> "]"]
Colon == [k |-> ":"]
Comma == [k |-> ","]
TTrue == [k |-> "true"]
TFalse == [k |-> "false"]
TNull == [k |-> "null"]
TStr(s) == [k |-> "str", s |-> s]
TNum(n) == [k |-> "num", n |-> n]
\* text no JSON grammar accepts, such as an HTML error page
TJunk == [k |-> "junk"]

RECURSIVE json_dumps(_)
RECURSIVE DumpItems(_)
RECURSIVE DumpMembers(_, _)

DumpItems(a) ==
  IF a = <<>> THEN <<>>
  ELSE json_dumps(Head(a))
         \o (IF Tail(a) = <<>> THEN <<>> ELSE <<Comma>> \o DumpItems(Tail(a)))

DumpMembers(m, keys) ==
  IF keys = {} THEN <<>>
  ELSE LET k == CHOOSE x \in keys : TRUE
           rest == keys \ {k}
       IN <<TStr(k), Colon>> \o json_dumps(m[k])
            \o (IF rest = {} THEN <<>> ELSE <<Comma>> \o DumpMembers(m, rest))

json_dumps(v) ==
  CASE v.t = "none" -> <<TNull>>
    [] v.t = "bool" -> IF v.b THEN <<TTrue>> ELSE <<TFalse>>
    [] v.t = "int" -> <<TNum(v.n)>>
    [] v.t = "str" -> <<TStr(v.s)>>
    [] v.t = "list" -> <<LBrack>> \o DumpItems(v.a) \o <<RBrack>>
    [] v.t = "dict" -> <<LBrace>> \o DumpMembers(v.m, DOMAIN v.m) \o <<RBrace>>

ParseFail == [ok |-> FALSE, v |-> PyNone, i |-> 0]
ParseOk(v, i) == [ok |-> TRUE, v |-> v, i |-> i]

RECURSIVE ParseValue(_, _)
RECURSIVE ParseItems(_, _, _)
RECURSIVE ParseMembers(_, _, _)

\* the items of an array from position i, acc the items read so far
ParseItems(toks, i, acc) ==
  LET r == ParseValue(toks, i) IN
  IF ~r.ok \/ r.i > Len(toks) THEN ParseFail
  ELSE IF toks[r.i].k = "," THEN ParseItems(toks, r.i + 1, Append(acc, r.v))
  ELSE IF toks[r.i].k = "]" THEN ParseOk(PyList(Append(acc, r.v)), r.i + 1)
  ELSE ParseFail

\* the members of an object from position i; a repeated key keeps its last value
ParseMembers(toks, i, acc) ==
  IF i + 1 > Len(toks) \/ toks[i].k # "str" \/ toks[i + 1].k # ":" THEN ParseFail
  ELSE LET r == ParseValue(toks, i + 2) IN
       IF ~r.ok \/ r.i > Len(toks) THEN ParseFail
       ELSE IF toks[r.i].k = ","
            THEN ParseMembers(toks, r.i + 1, MapSet(acc, toks[i].s, r.v))
       ELSE IF toks[r.i].k = "}"
            THEN ParseOk(PyDict(MapSet(acc, toks[i].s, r.v)), r.i + 1)
       ELSE ParseFail

ParseValue(toks, i) ==
  IF i > Len(toks) THEN ParseFail
  ELSE LET tk == toks[i] IN
    CASE tk.k = "null" -> ParseOk(PyNone, i + 1)
      [] tk.k = "true" -> ParseOk(PyBool(TRUE), i + 1)
      [] tk.k = "false" -> ParseOk(PyBool(FALSE), i + 1)
      [] tk.k = "num" -> ParseOk(PyInt(tk.n), i + 1)
      [] tk.k = "str" -> ParseOk(PyStr(tk.s), i + 1)
      [] tk.k = "[" ->
           IF i + 1 <= Len(toks) /\ toks[i + 1].k = "]"
           THEN ParseOk(PyList(<<>>), i + 2)
           ELSE ParseItems(toks, i + 1, <<>>)
      [] tk.k = "{" ->
           IF i + 1 <= Len(toks) /\ toks[i + 1].k = "}"
           THEN ParseOk(PyDict(EmptyMap), i + 2)
           ELSE ParseMembers(toks, i + 1, EmptyMap)
      [] OTHER -> ParseFail

\* the whole text must be one JSON value
json_loads(toks) ==
  LET r == ParseValue(toks, 1) IN
  IF r.ok /\ r.i = Len(toks) + 1 THEN [ok |-> TRUE, v |-> r.v]
  ELSE [ok |-> FALSE, v |-> PyNone]

(***************************************************************************)
(* Header mappings are Python dicts from names to values: a sequence of    *)
(* <<name, value>> pairs with distinct names, in insertion order.          *)
(***************************************************************************)
DictHas(d, k) == \E i \in 1..Len(d) : d[i][1] = k

DictGet(d, k) == d[CHOOSE i \in 1..Len(d) : d[i][1] = k][2]

\* d[k] = v: an existing key keeps its place, a new key goes last
DictSet(d, k, v) ==
  IF DictHas(d, k)
  THEN [i \in 1..Len(d) |-> IF d[i][1] = k THEN <<k, v>> ELSE d[i]]
  ELSE Append(d, <<k, v>>)

RECURSIVE DictUpdate(_, _)
\* d.update(other)
DictUpdate(d, other) ==
  IF other = <<>> THEN d
  ELSE DictUpdate(DictSet(d, Head(other)[1], Head(other)[2]), Tail(other))

\* str.lower() on the header names of the model
Lower(name) ==
  CASE name = "Authorization" -> "authorization"
    [] name = "Content-Type" -> "content-type"
    [] name = "X-Trace" -> "x-trace"
    [] name = "File-Path" -> "file-path"
    [] name = "As-Task" -> "as-task"
    [] OTHER -> name

\* The transport reads the headers mapping without regard to letter case, a
\* later item replacing an earlier one of the same name: the positions of name.
WirePositions(headers, name) ==
  {i \in 1..Len(headers) : Lower(headers[i][1]) = Lower(name)}

WireHas(headers, name) == WirePositions(headers, name) # {}

WireGet(headers, name) ==
  headers[CHOOSE i \in WirePositions(headers, name) :
            \A j \in WirePositions(headers, name) : j <= i][2]

(***************************************************************************)
(* Text.  A Python str is a sequence of characters here; Str joins it into *)
(* one string.  str.encode() gives the UTF-8 bytes of the characters.      *)
(***************************************************************************)
\* the printable ASCII characters in the order of their codes, 32 to 126
\* (the grave accent, code 96, is written "(grave)")
AsciiPrintable ==
  <<
    " ", "!", "\"", "#", "$", "%", "&", "'", "(", ")", "*", "+",
    ",", "-", ".", "/", "0", "1", "2", "3", "4", "5", "6", "7",
    "8", "9", ":", ";", "<", "=", ">", "?", "@", "A", "B", "C",
    "D", "E", "F", "G", "H", "I", "J", "K", "L", "M", "N", "O",
    "P", "Q", "R", "S", "T", "U", "V", "W", "X", "Y", "Z", "[",
    "\\", "]", "^", "_", "(grave)", "a", "b", "c", "d", "e", "f", "g",
    "h", "i", "j", "k", "l", "m", "n", "o", "p", "q", "r", "s",
    "t", "u", "v", "w", "x", "y", "z", "{", "|", "}", "~"
  >>

\* the code of each of them: " " is 32
AsciiCodes ==
  [c \in {AsciiPrintable[i] : i \in 1..Len(AsciiPrintable)} |->
     31 + (CHOOSE i \in 1..Len(AsciiPrintable) : AsciiPrintable[i] = c)]

IsAscii(c) == c \in DOMAIN AsciiCodes

\* ord(c) of a printable ASCII character
Ord(c) == AsciiCodes[c]

\* the UTF-8 bytes of one character; e-acute (two bytes) stands for the
\* text outside ASCII
Utf8Bytes(c) ==
  CASE IsAscii(c) -> <<Ord(c)>>
    [] c = "é" -> <<195, 169>>

RECURSIVE encode(_)
encode(chars) ==
  IF chars = <<>> THEN <<>> ELSE Utf8Bytes(Head(chars)) \o encode(Tail(chars))

RECURSIVE Str(_)
Str(chars) == IF chars = <<>> THEN "" ELSE Head(chars) \o Str(Tail(chars))

(***************************************************************************)
(* hashlib.sha256(...).hexdigest(): SHA-256 of FIPS 180-4.  A 32-bit word  *)
(* is a pair <<high 16 bits, low 16 bits>>.                                *)
(***************************************************************************)
RECURSIVE xor16(_, _)
xor16(a, b) ==
  IF a = 0 THEN b
  ELSE IF b = 0 THEN a
  ELSE 2 * xor16(a \div 2, b \div 2) + ((a + b) % 2)

RECURSIVE and16(_, _)
and16(a, b) ==
  IF a = 0 \/ b = 0 THEN 0
  ELSE 2 * and16(a \div 2, b \div 2) + ((a % 2) * (b % 2))

WordXor(x, y) == <<xor16(x[1], y[1]), xor16(x[2], y[2])>>
WordAnd(x, y) == <<and16(x[1], y[1]), and16(x[2], y[2])>>
WordNot(x) == <<65535 - x[1], 65535 - x[2]>>

\* addition modulo 2^32
WordAdd(x, y) ==
  LET lo == x[2] + y[2] IN
  <<(x[1] + y[1] + (lo \div 65536)) % 65536, lo % 65536>>

\* rotation and shift to the right by n bits, 0 < n < 32
RotR(x, n) ==
  LET hi == IF n >= 16 THEN x[2] ELSE x[1]
      lo == IF n >= 16 THEN x[1] ELSE x[2]
      p == 2 ^ (n % 16)
      q == 65536 \div p
  IN <<(hi \div p) + (lo % p) * q, (lo \div p) + (hi % p) * q>>

ShR(x, n) ==
  LET p == 2 ^ n
      q == 65536 \div p
  IN <<x[1] \div p, (x[2] \div p) + (x[1] % p) * q>>

Ch(x, y, z) == WordXor(WordAnd(x, y), WordAnd(WordNot(x), z))
Maj(x, y, z) ==
  WordXor(WordXor(WordAnd(x, y), WordAnd(x, z)), WordAnd(y, z))
BigSigma0(x) == WordXor(WordXor(RotR(x, 2), RotR(x, 13)), RotR(x, 22))
BigSigma1(x) == WordXor(WordXor(RotR(x, 6), RotR(x, 11)), RotR(x, 25))
SmallSigma0(x) == WordXor(WordXor(RotR(x, 7), RotR(x, 18)), ShR(x, 3))
SmallSigma1(x) == WordXor(WordXor(RotR(x, 17), RotR(x, 19)), ShR(x, 10))

sha256_K ==
  <<
    <<17034, 12184>>, <<28983, 17553>>, <<46528, 64463>>, <<59829, 56229>>,
    <<14678, 49755>>, <<23025, 4593>>, <<37439, 33444>>, <<43804, 24277>>,
    <<55303, 43672>>, <<4739, 23297>>, <<9265, 34238>>, <<21772, 32195>>,
    <<29374, 23924>>, <<32990, 45566>>, <<39900, 1703>>, <<49563, 61812>>,
    <<58523, 27073>>, <<61374, 18310>>, <<4033, 40390>>, <<9228, 41420>>,
    <<11753, 11375>>, <<19060, 33962>>, <<23728, 43484>>, <<30457, 35034>>,
    <<38974, 20818>>, <<43057, 50797>>, <<45059, 10184>>, <<48985, 32711>>,
    <<50912, 3059>>, <<54695, 37191>>, <<1738, 25425>>, <<5161, 10599>>,
    <<10167, 2693>>, <<11803, 8504>>, <<19756, 28156>>, <<21304, 3347>>,
    <<25866, 29524>>, <<30314, 2747>>, <<33218, 51502>>, <<37490, 11397>>,
    <<41663, 59553>>, <<43034, 26187>>, <<49739, 35696>>, <<51052, 20899>>,
    <<53650, 59417>>, <<54937, 1572>>, <<62478, 13701>>, <<4202, 41072>>,
    <<6564, 49430>>, <<7735, 27656>>, <<10056, 30540>>, <<13488, 48309>>,
    <<14620, 3251>>, <<20184, 43594>>, <<23452, 51791>>, <<26670, 28659>>,
    <<29839, 33518>>, <<30885, 25455>>, <<33992, 30740>>, <<36039, 520>>,
    <<37054, 65530>>, <<42064, 27883>>, <<48889, 41975>>, <<50801, 30962>>
  >>

sha256_H0 ==
  <<
    <<27145, 58983>>, <<47975, 44677>>, <<15470, 62322>>, <<42319, 62778>>,
    <<20750, 21119>>, <<39685, 26764>>, <<8067, 55723>>, <<23520, 52505>>
  >>

\* the message with the bit 1, zero bytes and its length in bits appended,
\* a whole number of 64-byte blocks
sha256_pad(bytes) ==
  LET n == Len(bytes)
      bits == 8 * n
  IN bytes \o <<128>> \o [i \in 1..((55 - n) % 64) |-> 0]
       \o <<0, 0, 0, 0, (bits \div 16777216) % 256, (bits \div 65536) % 256,
            (bits \div 256) % 256, bits % 256>>

\* the 16 words of a 64-byte block
BlockWords(block) ==
  [i \in 1..16 |-> <<block[4 * i - 3] * 256 + block[4 * i - 2],
                     block[4 * i - 1] * 256 + block[4 * i]>>]

RECURSIVE sha256_schedule(_)
sha256_schedule(w) ==
  IF Len(w) = 64 THEN w
  ELSE LET t == Len(w) + 1 IN
       sha256_schedule(Append(w,
         WordAdd(WordAdd(SmallSigma1(w[t - 2]), w[t - 7]),
                 WordAdd(SmallSigma0(w[t - 15]), w[t - 16]))))

\* the 64 rounds; r.t is the round to do next, r.s the working variables
\* a to h
RECURSIVE sha256_rounds(_, _)
sha256_rounds(r, w) ==
  IF r.t > 64 THEN r.s
  ELSE LET s == r.s
           T1 == WordAdd(WordAdd(WordAdd(s[8], BigSigma1(s[5])),
                                 WordAdd(Ch(s[5], s[6], s[7]), sha256_K[r.t])),
                         w[r.t])
           T2 == WordAdd(BigSigma0(s[1]), Maj(s[1], s[2], s[3]))
       IN sha256_rounds([t |-> r.t + 1,
                         s |-> <<WordAdd(T1, T2), s[1], s[2], s[3],
                                 WordAdd(s[4], T1), s[5], s[6], s[7]>>], w)

sha256_compress(h, block) ==
  LET s == sha256_rounds([t |-> 1, s |-> h],
                         sha256_schedule(BlockWords(block)))
  IN [i \in 1..8 |-> WordAdd(h[i], s[i])]

RECURSIVE sha256_blocks(_, _)
sha256_blocks(h, padded) ==
  IF padded = <<>> THEN h
  ELSE sha256_blocks(sha256_compress(h, SubSeq(padded, 1, 64)),
                     SubSeq(padded, 65, Len(padded)))

\* faulty hex digits: uppercase
HexDigits_upper ==
  <<"0", "1", "2", "3", "4", "5", "6", "7",
    "8", "9", "A", "B", "C", "D", "E", "F">>

HexDigits ==
  <<"0", "1", "2", "3", "4", "5", "6", "7",
    "8", "9", "a", "b", "c", "d", "e", "f">>

\* the four lowercase hex digits of a 16-bit number
hex16(n) ==
  HexDigits[(n \div 4096) + 1] \o HexDigits[((n \div 256) % 16) + 1]
    \o HexDigits[((n \div 16) % 16) + 1] \o HexDigits[(n % 16) + 1]

RECURSIVE hexwords(_)
hexwords(ws) ==
  IF ws = <<>> THEN ""
  ELSE hex16(Head(ws)[1]) \o hex16(Head(ws)[2]) \o hexwords(Tail(ws))

\* hashlib.sha256(bytes).hexdigest()
sha256_hexdigest(bytes) == hexwords(sha256_blocks(sha256_H0, sha256_pad(bytes)))

(***************************************************************************)
(* BaseClient.__init__, set_token's stored value and _get_headers.         *)
(***************************************************************************)
\* a faulty rstrip: one trailing ch is removed
rstrip_once(s, ch) ==
  IF s # <<>> /\ s[Len(s)] = ch THEN SubSeq(s, 1, Len(s) - 1) ELSE s

RECURSIVE rstrip(_, _)
\* s.rstrip(ch) on a sequence of characters
rstrip(s, ch) ==
  IF s # <<>> /\ s[Len(s)] = ch THEN rstrip(SubSeq(s, 1, Len(s) - 1), ch) ELSE s

\* the constructor arguments the model tries
BaseUrlArgs == {<<"h">>, <<"h", "/">>, <<"h", "/", "/">>}
TimeoutArgs == {30, 5}

Tok(i) == "t" \o ToString(i)
\* the arguments set_token is called with
Tokens == {""} \cup {Tok(i) : i \in 1..NumTokens}

\* a faulty _get_headers: the credential sent with a scheme prefix
_get_headers_bearer ==
  LET headers == << <<"Content-Type", "application/json">> >> IN
  IF Truthy(token) THEN DictSet(headers, "Authorization", "Bearer " \o token.s)
  ELSE headers

_get_headers ==
  LET headers == << <<"Content-Type", "application/json">> >> IN
  IF Truthy(token) THEN DictSet(headers, "Authorization", token.s) ELSE headers

(***************************************************************************)
(* Exceptions.  An OpenListAPIError (or subclass) carries message,         *)
(* status_code and response; any other exception is known by its class.    *)
(***************************************************************************)
OpenListErrorClasses ==
  {"OpenListAPIError", "AuthenticationError", "AuthorizationError",
   "NotFoundError", "ValidationError", "NetworkError", "ServerError"}

\* OpenListAPIError.__init__ (and the subclasses, which inherit it)
OpenListAPIError(cls, message, status_code, response) ==
  [cls |-> cls, message |-> message, status_code |-> status_code,
   response |-> response]

\* NetworkError(message): status_code and response keep their default None
NetworkError(message) == OpenListAPIError("NetworkError", message, PyNone, PyNone)

\* an exception raised by the requests library or by the json module
ForeignError(cls, text) == [cls |-> cls, text |-> text]

\* requests.exceptions: ConnectTimeout derives from ConnectionError and Timeout,
\* ReadTimeout from Timeout, SSLError from ConnectionError, and all of them,
\* like TooManyRedirects, from RequestException.  Response.json() raises a
\* JSONDecodeError that derives from RequestException in requests 2.27 and
\* later, and only from ValueError before.
IsTimeout(exc) == exc.cls \in {"ConnectTimeout", "ReadTimeout"}

IsConnectionError(exc) == exc.cls \in {"ConnectTimeout", "ConnectionError", "SSLError"}

IsRequestException(exc) ==
  \/ exc.cls \in {"ConnectTimeout", "ReadTimeout", "ConnectionError", "SSLError",
                  "TooManyRedirects", "HTTPError"}
  \/ exc.cls = "JSONDecodeError" /\ json_fault_is_request_exception

Returned(value) == [type |-> "return", value |-> value]
Raised(exc) == [type |-> "raise", exc |-> exc]

(***************************************************************************)
(* The response of the transport and _handle_response.                     *)
(***************************************************************************)
Response(status_code, body) == [status_code |-> status_code, body |-> body]

\* Response.raise_for_status() raises HTTPError for 400 <= status < 600 only
raise_for_status(response) ==
  400 <= response.status_code /\ response.status_code < 600

\* str(e) of that HTTPError: "<status> Client Error: ..." or "<status> Server Error: ..."
HTTPErrorText(response) ==
  ToString(response.status_code)
    \o (IF response.status_code < 500 THEN " Client Error" ELSE " Server Error")

\* a faulty message: the body is never read
error_message_ignores_body(response) == PyStr(HTTPErrorText(response))

\* lines 90-94: the message of the failure; .get on a body that is JSON but not
\* an object raises AttributeError, which the bare except turns into str(e)
error_message(response) ==
  LET error_data == json_loads(response.body) IN
  IF error_data.ok /\ error_data.v.t = "dict"
  THEN IF "message" \in DOMAIN error_data.v.m
       THEN error_data.v.m["message"]
       ELSE PyStr(HTTPErrorText(response))
  ELSE PyStr(HTTPErrorText(response))

\* a faulty classification: > 500 where the code has >= 500
ErrorClass_gt_500(status_code) ==
  IF status_code = 401 THEN "AuthenticationError"
  ELSE IF status_code = 403 THEN "AuthorizationError"
  ELSE IF status_code = 404 THEN "NotFoundError"
  ELSE IF status_code = 400 THEN "ValidationError"
  ELSE IF status_code > 500 THEN "ServerError"
  ELSE "OpenListAPIError"

\* a faulty classification: the last branch raises ServerError too
ErrorClass_no_generic(status_code) ==
  IF status_code = 401 THEN "AuthenticationError"
  ELSE IF status_code = 403 THEN "AuthorizationError"
  ELSE IF status_code = 404 THEN "NotFoundError"
  ELSE IF status_code = 400 THEN "ValidationError"
  ELSE "ServerError"

\* lines 96-107: the class of the failure
ErrorClass(status_code) ==
  IF status_code = 401 THEN "AuthenticationError"
  ELSE IF status_code = 403 THEN "AuthorizationError"
  ELSE IF status_code = 404 THEN "NotFoundError"
  ELSE IF status_code = 400 THEN "ValidationError"
  ELSE IF status_code >= 500 THEN "ServerError"
  ELSE "OpenListAPIError"

\* a faulty failure: raised with the message alone
StatusFailure_bare(response) ==
  OpenListAPIError(ErrorClass(response.status_code), error_message(response),
                   PyNone, PyNone)

\* a faulty failure: the body is read without the inner try, so a body
\* that is not JSON, or is JSON but no object, ends the call with the fault
\* of reading it
StatusFailure_body_fault_escapes(response) ==
  LET error_data == json_loads(response.body) IN
  IF ~error_data.ok THEN ForeignError("ValueError", "Expecting value")
  ELSE IF error_data.v.t # "dict"
       THEN ForeignError("AttributeError", "object has no attribute 'get'")
  ELSE OpenListAPIError(ErrorClass(response.status_code),
                        error_message(response),
                        PyInt(response.status_code), response)

\* lines 88-107: the except HTTPError branch
StatusFailure(response) ==
  OpenListAPIError(ErrorClass(response.status_code), error_message(response),
                   PyInt(response.status_code), response)

\* a faulty _handle_response: the envelope's data is returned in its place
_handle_response_unwraps_data(response) ==
  IF raise_for_status(response)
  THEN Raised(StatusFailure(response))
  ELSE LET parsed == json_loads(response.body) IN
       IF ~parsed.ok THEN Raised(ForeignError("JSONDecodeError", "Expecting value"))
       ELSE IF parsed.v.t = "dict" /\ "data" \in DOMAIN parsed.v.m
            THEN Returned(parsed.v.m["data"])
       ELSE Returned(parsed.v)

\* a faulty _handle_response: an envelope whose code is 400 or more fails
\* the call with the kind that code selects
_handle_response_reads_envelope_code(response) ==
  IF raise_for_status(response)
  THEN Raised(StatusFailure(response))
  ELSE LET parsed == json_loads(response.body) IN
       IF ~parsed.ok THEN Raised(ForeignError("JSONDecodeError", "Expecting value"))
       ELSE IF /\ parsed.v.t = "dict"
               /\ "code" \in DOMAIN parsed.v.m
               /\ parsed.v.m["code"].t = "int"
               /\ parsed.v.m["code"].n >= 400
            THEN Raised(OpenListAPIError(ErrorClass(parsed.v.m["code"].n),
                                         "envelope", parsed.v.m["code"].n,
                                         response))
       ELSE Returned(parsed.v)

_handle_response(response) ==
  IF raise_for_status(response)
  THEN Raised(StatusFailure(response))
  ELSE LET parsed == json_loads(response.body) IN
       IF parsed.ok THEN Returned(parsed.v)
       ELSE Raised(ForeignError("JSONDecodeError", "Expecting value"))

\* faulty except clauses: no clause for RequestException
ExceptClauses_no_catch_all(exc) ==
  IF IsTimeout(exc) THEN Raised(NetworkError("timeout: " \o exc.text))
  ELSE IF IsConnectionError(exc)
       THEN Raised(NetworkError("connection failed: " \o exc.text))
  ELSE Raised(exc)

\* lines 145-150: the except clauses of _request, in their order (the three
\* message prefixes are Chinese text in the source, rendered in English here)
ExceptClauses(exc) ==
  IF IsTimeout(exc) THEN Raised(NetworkError("timeout: " \o exc.text))
  ELSE IF IsConnectionError(exc)
       THEN Raised(NetworkError("connection failed: " \o exc.text))
  ELSE IF IsRequestException(exc)
       THEN Raised(NetworkError("network error: " \o exc.text))
  ELSE Raised(exc)

\* lines 136-150: what _request does with what session.request did
RequestOutcome(t) ==
  IF t.type = "raise" THEN ExceptClauses(t.exc)
  ELSE LET r == _handle_response(t.response) IN
       IF r.type = "raise" /\ r.exc.cls \notin OpenListErrorClasses
       THEN ExceptClauses(r.exc)
       ELSE r

(***************************************************************************)
(* The callers and the transport the model tries.                          *)
(***************************************************************************)
Methods == {"GET", "POST", "PUT", "DELETE"}

Endpoints == {<<"/", "p">>, <<"/", "q">>}

\* the headers a caller may pass
HeaderPool ==
  {<<"Content-Type", "application/octet-stream">>, <<"Authorization", "own">>,
   <<"authorization", "own">>, <<"X-Trace", "1">>}

\* the mappings of at most MaxExtraHeaders of them
CallerHeaders ==
  {h \in UNION {[1..n -> HeaderPool] : n \in 0..MaxExtraHeaders} :
     \A i, j \in 1..Len(h) : h[i][1] = h[j][1] => i = j}

\* **kwargs of a call: without a 'headers' key or with one, and the calls
\* that try to pass a timeout of their own
NoKwargs == [x \in {} |-> <<>>]
TimeoutKwargs ==
  {[timeout |-> 1], [headers |-> << <<"X-Trace", "1">> >>, timeout |-> 1]}
KwargsSet ==
  {NoKwargs} \cup {[headers |-> h] : h \in CallerHeaders} \cup TimeoutKwargs

\* what a server may put in a body
Payloads ==
  {PyDict([code |-> PyInt(200), message |-> PyStr("success"),
           data |-> PyDict([path |-> PyStr("/x")])]),
   PyDict([code |-> PyInt(401), message |-> PyStr("token is invalidated"),
           data |-> PyNone]),
   PyDict([message |-> PyNone]),
   PyDict([message |-> PyList(<<PyStr("a"), PyInt(1)>>)]),
   PyDict([error |-> PyStr("oops")]),
   PyDict(EmptyMap),
   PyList(<<PyInt(1), PyList(<<>>), PyDict([message |-> PyStr("in a list")])>>),
   PyStr("pong"),
   PyInt(0),
   PyBool(TRUE),
   PyNone}

\* bodies that are not JSON: empty, an HTML page, cut short, with trailing text
MalformedBodies ==
  {<<>>, <<TJunk>>, <<LBrace, TStr("message"), Colon>>,
   <<LBrace, TStr("message"), Colon, TStr("m"), RBrace, TJunk>>}

Bodies == {json_dumps(p) : p \in Payloads} \cup MalformedBodies

Statuses == {200, 204, 302, 304, 400, 401, 403, 404, 409, 429, 500, 502, 503, 600}

\* session.request raises before any response ...
TransportFaults ==
  {ForeignError("ConnectTimeout", "connect timed out"),
   ForeignError("ReadTimeout", "read timed out"),
   ForeignError("ConnectionError", "connection refused"),
   ForeignError("SSLError", "certificate verify failed"),
   ForeignError("TooManyRedirects", "exceeded 30 redirects")}

\* ... or returns a response
TransportOutcomes ==
  {[type |-> "raise", exc |-> e] : e \in TransportFaults}
    \cup {[type |-> "response", response |-> Response(st, b)] :
            st \in Statuses, b \in Bodies}

NoRequest == [method |-> "none"]
NoTransport == [type |-> "none"]
NoOutcome == [type |-> "none"]

(***************************************************************************)
(* The state machine.  A call is two steps: _request up to the point where *)
(* session.request has the request (pc = "waiting", sent is the request on *)
(* the wire), and the return of session.request with everything _request   *)
(* does after it.  One caller: nothing else runs while a call waits.       *)
(***************************************************************************)
\* no call in progress: no entry point of the core and no wrapper
NoEntry == "none"
NoApi == [fn |-> "none"]
\* no options object kept, no earlier call recorded, no second thread
NoOptions == [none |-> TRUE]
NoFirst == [phase |-> "none"]
NoThread == [pc |-> "none"]

\* the resource groups of an OpenListClient
Groups ==
  {"auth", "fs", "public", "admin.meta", "admin.user", "admin.storage",
   "admin.driver", "admin.setting", "admin.task"}

\* faulty groups: every group is given a BaseClient of its own
OpenListClient_resources_own_clients == [g \in Groups |-> g]

\* __init__.py:90-108: one BaseClient is made, and every group is
\* constructed with it and keeps it as its client; "_client" is that object
OpenListClient_resources == [g \in Groups |-> "_client"]

\* OpenListClient(base_url=b, timeout=tmo); base_url_arg remembers b
Construct(b, tmo) ==
  /\ base_url_arg = b
  /\ base_url = rstrip(b, "/")
  /\ timeout = tmo
  /\ token = PyNone
  /\ pc = "idle"
  /\ sent = NoRequest
  /\ transport = NoTransport
  /\ outcome = NoOutcome
  /\ last_set = PyNone
  /\ json_fault_is_request_exception \in BOOLEAN
  /\ attempts = 0
  /\ entry = NoEntry
  /\ api = NoApi
  /\ result = NoOutcome
  /\ resources = OpenListClient_resources
  /\ options = NoOptions
  /\ first = NoFirst
  /\ thread = NoThread

\* a client of the core alone, built with a base URL that ends in "/"
Init == \E tmo \in TimeoutArgs : Construct(<<"h", "/">>, tmo)

\* a faulty set_token: an empty token is not stored
set_token_skips_empty(t) ==
  /\ token' = IF t = "" THEN token ELSE PyStr(t)
  /\ last_set' = PyStr(t)
  /\ UNCHANGED <<base_url, timeout, pc, sent, transport, outcome,
                 json_fault_is_request_exception, attempts,
                 entry, api, result, base_url_arg>>

\* lines 47-53: one store to self.token
set_token(t) ==
  /\ token' = PyStr(t)
  /\ last_set' = PyStr(t)
  /\ UNCHANGED <<base_url, timeout, pc, sent, transport, outcome,
                 json_fault_is_request_exception, attempts,
                 entry, api, result, base_url_arg>>

\* OpenListClient.token: the property returns the BaseClient's token
client_token == token

\* faulty headers: the defaults replace what the caller passed
RequestHeaders_defaults_win(kwargs) ==
  IF "headers" \in DOMAIN kwargs
  THEN DictUpdate(kwargs.headers, _get_headers)
  ELSE _get_headers

\* lines 129-134: the headers handed to session.request
RequestHeaders(kwargs) ==
  IF "headers" \in DOMAIN kwargs
  THEN DictUpdate(_get_headers, kwargs.headers)
  ELSE _get_headers

\* a faulty request: members that are None are left out of a JSON body
SentRequest_strips_nulls(method, endpoint, kwargs) ==
  [method |-> method,
   url |-> base_url \o endpoint,
   headers |-> RequestHeaders(kwargs),
   timeout |-> timeout,
   kwargs |-> [x \in (DOMAIN kwargs) \ {"headers"} |->
                 IF x = "json" /\ kwargs[x].t = "dict"
                 THEN PyDict([k \in {j \in DOMAIN kwargs[x].m :
                                       kwargs[x].m[j] # PyNone} |->
                                kwargs[x].m[k]])
                 ELSE kwargs[x]],
   endpoint |-> endpoint,
   args |-> kwargs]

\* lines 129-143: the arguments of session.request; endpoint and args keep
\* what _request was called with
SentRequest(method, endpoint, kwargs) ==
  [method |-> method,
   url |-> base_url \o endpoint,
   headers |-> RequestHeaders(kwargs),
   timeout |-> timeout,
   kwargs |-> [x \in (DOMAIN kwargs) \ {"headers"} |-> kwargs[x]],
   endpoint |-> endpoint,
   args |-> kwargs]

\* lines 137-143: session.request(..., timeout=self.timeout, **kwargs) with
\* a 'timeout' in kwargs is a call with the keyword given twice
DuplicateKeyword ==
  ForeignError("TypeError", "got multiple values for keyword argument 'timeout'")

\* a faulty _request: a timeout among the options replaces the session's
_request_honours_timeout_option(method, endpoint, kwargs) ==
  /\ pc = "idle"
  /\ attempts' = 1
  /\ sent' = IF "timeout" \in DOMAIN kwargs
             THEN [SentRequest(method, endpoint,
                               [x \in (DOMAIN kwargs) \ {"timeout"} |-> kwargs[x]])
                     EXCEPT !.timeout = kwargs.timeout]
             ELSE SentRequest(method, endpoint, kwargs)
  /\ pc' = "waiting"
  /\ transport' = NoTransport
  /\ outcome' = NoOutcome
  /\ result' = NoOutcome
  /\ UNCHANGED <<base_url, timeout, token, last_set,
                 json_fault_is_request_exception, base_url_arg>>

\* lines 129-143: up to the call of session.request; attempts counts the
\* times this call of _request has invoked session.request.  With a
\* 'timeout' among the options Python raises TypeError at the call
\* expression: session.request is not entered, no except clause matches,
\* and the call ends at once.
_request(method, endpoint, kwargs) ==
  /\ pc = "idle"
  /\ transport' = NoTransport
  /\ IF "timeout" \in DOMAIN kwargs
     THEN /\ attempts' = 0
          /\ sent' = NoRequest
          /\ pc' = "idle"
          /\ outcome' = Raised(DuplicateKeyword)
          /\ result' = Raised(DuplicateKeyword)
     ELSE /\ attempts' = 1
          /\ sent' = SentRequest(method, endpoint, kwargs)
          /\ pc' = "waiting"
          /\ outcome' = NoOutcome
          /\ result' = NoOutcome
  /\ UNCHANGED <<base_url, timeout, token, last_set,
                 json_fault_is_request_exception, base_url_arg>>

\* lines 152-166; entry remembers which of the four was called
get(endpoint, kwargs) == _request("GET", endpoint, kwargs) /\ entry' = "get"
post(endpoint, kwargs) == _request("POST", endpoint, kwargs) /\ entry' = "post"
\* a faulty put: it calls _request with POST
put_as_post(endpoint, kwargs) ==
  _request("POST", endpoint, kwargs) /\ entry' = "put"

put(endpoint, kwargs) == _request("PUT", endpoint, kwargs) /\ entry' = "put"
delete(endpoint, kwargs) ==
  _request("DELETE", endpoint, kwargs) /\ entry' = "delete"

(***************************************************************************)
(* The resource wrappers (auth.py, fs.py, public.py, admin/*.py).  Each    *)
(* builds the arguments of one call of the core, makes the call, and turns *)
(* the value the core returns into its own return value.                   *)
(***************************************************************************)
\* an instance of a pydantic model of models.py
PyModel(cls, fields) == [t |-> "model", cls |-> cls, m |-> fields]

\* models.py: the fields of the models, all required, and their types
ModelFields(cls) ==
  CASE cls = "BaseResponse" ->
         [code |-> "int", message |-> "str", data |-> "Any"]
    [] cls = "LoginData" -> [token |-> "str"]
    [] cls = "LoginResponse" ->
         [code |-> "int", message |-> "str", data |-> "LoginData"]
    [] cls = "TaskInfo" ->
         [id |-> "str", name |-> "str", state |-> "int", status |-> "str",
          progress |-> "int", error |-> "str"]
    [] cls = "UploadTaskData" -> [task |-> "TaskInfo"]
    [] cls = "UploadResponse" ->
         [code |-> "int", message |-> "str", data |-> "UploadTaskData"]

\* pydantic's validation of a value against a field type, for the values the
\* model tries: an int for int, a str for str, a dict with every field for
\* a model (the conversions pydantic makes between scalar types are not
\* among them)
RECURSIVE Conforms(_, _)
Conforms(type, v) ==
  CASE type = "Any" -> TRUE
    [] type = "int" -> v.t = "int"
    [] type = "str" -> v.t = "str"
    [] OTHER ->
         /\ v.t = "dict"
         /\ \A f \in DOMAIN ModelFields(type) :
              f \in DOMAIN v.m /\ Conforms(ModelFields(type)[f], v.m[f])

\* the validated value: keys that are not fields are left out
RECURSIVE Validated(_, _)
Validated(type, v) ==
  IF type \in {"Any", "int", "str"} THEN v
  ELSE PyModel(type, [f \in DOMAIN ModelFields(type) |->
                        Validated(ModelFields(type)[f], v.m[f])])

\* cls(**response_data)
Instantiate(cls, response_data) ==
  IF response_data.t # "dict"
  THEN Raised(ForeignError("TypeError", "argument after ** must be a mapping"))
  ELSE IF Conforms(cls, response_data)
       THEN Returned(Validated(cls, response_data))
  ELSE Raised(ForeignError("pydantic.ValidationError",
                           "validation error for " \o cls))

\* response_data.get("data", default)
GetData(response_data, default) ==
  IF response_data.t # "dict"
  THEN Raised(ForeignError("AttributeError", "object has no attribute 'get'"))
  ELSE Returned(IF "data" \in DOMAIN response_data.m
                THEN response_data.m["data"] ELSE default)

\* what a wrapper makes of a value the core returned
WrapperValue(fn, response_data) ==
  CASE fn \in {"login", "login_hash"} ->
         Instantiate("LoginResponse", response_data)
    [] fn \in {"form_upload", "stream_upload"} ->
         Instantiate("UploadResponse", response_data)
    [] fn = "get_info" -> GetData(response_data, PyDict(EmptyMap))
    [] fn = "ping" -> Returned(response_data)
    [] fn \in {"mkdir", "MetaAPI.delete", "delete_cache", "load_all"} ->
         Instantiate("BaseResponse", response_data)
    [] fn \in {"get_done", "get_undone", "names", "SettingAPI.list"} ->
         GetData(response_data, PyList(<<>>))
    [] OTHER -> Returned(response_data)

\* a faulty wrapper: a failure of the core is caught and None is returned
WrapperResult_swallows(fn, o) ==
  IF o.type = "raise"
  THEN IF fn = "none" THEN o ELSE Returned(PyNone)
  ELSE WrapperValue(fn, o.value)

\* The end of a wrapper (auth.py:65-66, admin/task.py:54-55, and the same
\* two lines in every other wrapper): no wrapper has a try statement, so an
\* exception of the core's call leaves the wrapper as it is.
WrapperResult(fn, o) ==
  IF o.type = "raise" THEN o ELSE WrapperValue(fn, o.value)

\* the arguments the model calls the wrappers with
Usernames == {<<"a", "d", "m", "i", "n">>}
Passwords == {<<"p", "w", "1">>, <<"p", "@", "s", "s", " ", "é">>}
OtpCodes == {PyNone, PyStr(""), PyStr("123456")}
TaskIds == {<<"t", "-", "1">>}

\* auth.py:57-59: the payload of login
LoginPayload(username, password_field, otp_code) ==
  LET payload == [username |-> PyStr(Str(username)),
                  password |-> PyStr(password_field)]
  IN PyDict(IF Truthy(otp_code)
            THEN MapSet(payload, "otp_code", otp_code)
            ELSE payload)

\* AuthAPI.login, auth.py:57-66
login(username, password, otp_code) ==
  /\ post(<<"/api/auth/login">>,
          [json |-> LoginPayload(username, Str(password), otp_code)])
  /\ api' = [fn |-> "login", username |-> username, password |-> password,
             otp_code |-> otp_code]

\* auth.py:101: the text appended to the password before hashing
AlistSuffix ==
  <<"-", "h", "t", "t", "p", "s", ":", "/", "/", "g", "i", "t", "h",
    "u", "b", ".", "c", "o", "m", "/", "a", "l", "i", "s", "t", "-",
    "o", "r", "g", "/", "a", "l", "i", "s", "t">>

\* auth.py:101-102: hashlib.sha256((password + suffix).encode()).hexdigest(),
\* for each password the model tries
HashedPassword ==
  [password \in Passwords |->
     sha256_hexdigest(encode(password \o AlistSuffix))]

\* a faulty digest: a client that holds a token does not hash
hashed_password_unless_token(password) ==
  IF Truthy(token) THEN Str(password) ELSE HashedPassword[password]

\* auth.py:101-102: hashed_password, computed from the argument alone
hashed_password(password) == HashedPassword[password]

\* AuthAPI.login_hash, auth.py:68-114
login_hash(username, password, otp_code) ==
  /\ post(<<"/api/auth/login/hash">>,
          [json |-> LoginPayload(username, hashed_password(password),
                                 otp_code)])
  /\ api' = [fn |-> "login_hash", username |-> username,
             password |-> password, otp_code |-> otp_code]

(***************************************************************************)
(* The upload wrappers of fs.py.                                           *)
(***************************************************************************)
UpperHexDigits ==
  <<"0", "1", "2", "3", "4", "5", "6", "7",
    "8", "9", "A", "B", "C", "D", "E", "F">>

\* urllib.parse.quote never encodes letters, digits and _ . - ~
AlwaysSafe(c) ==
  /\ IsAscii(c)
  /\ \/ Ord(c) \in 48..57
     \/ Ord(c) \in 65..90
     \/ Ord(c) \in 97..122
     \/ c \in {"_", ".", "-", "~"}

\* %XX for each byte, in uppercase hex
RECURSIVE PercentBytes(_)
PercentBytes(bytes) ==
  IF bytes = <<>> THEN ""
  ELSE "%" \o UpperHexDigits[(Head(bytes) \div 16) + 1]
           \o UpperHexDigits[(Head(bytes) % 16) + 1]
           \o PercentBytes(Tail(bytes))

\* urllib.parse.quote(chars, safe=safe), safe a set of characters
RECURSIVE quote(_, _)
quote(chars, safe) ==
  IF chars = <<>> THEN ""
  ELSE (IF AlwaysSafe(Head(chars)) \/ Head(chars) \in safe
        THEN Head(chars)
        ELSE PercentBytes(Utf8Bytes(Head(chars))))
         \o quote(Tail(chars), safe)

\* str(b) of a bool
str_of_bool(b) ==
  IF b THEN <<"T", "r", "u", "e">> ELSE <<"F", "a", "l", "s", "e">>

\* str.lower()
str_lower(chars) ==
  [i \in 1..Len(chars) |->
     IF IsAscii(chars[i]) /\ Ord(chars[i]) \in 65..90
     THEN AsciiPrintable[Ord(chars[i]) + 1]
     ELSE chars[i]]

\* faulty upload headers: quote with its default safe="/"
UploadHeaders_keeps_slash(file_path, as_task) ==
  << <<"File-Path", quote(file_path, {"/"})>>,
     <<"As-Task", Str(str_lower(str_of_bool(as_task)))>> >>

\* fs.py:580-583 and 627-630: the headers both uploads pass
UploadHeaders(file_path, as_task) ==
  << <<"File-Path", quote(file_path, {})>>,
     <<"As-Task", Str(str_lower(str_of_bool(as_task)))>> >>

\* the arguments the model calls the uploads with
FilePaths ==
  {<<"/", "a">>,
   <<"/", "d", " ", "e", "/", "f", "?", ".", "t", "x", "t">>,
   <<"/", "é", "%", "+", "&", "#">>}
FileObjects == {[t |-> "file", content |-> "bytes of a.txt"]}

\* FileSystemAPI.form_upload, fs.py:547-593
form_upload(file_path, file, as_task) ==
  /\ put(<<"/api/fs/form">>,
         [files |-> [file |-> file],
          headers |-> UploadHeaders(file_path, as_task)])
  /\ api' = [fn |-> "form_upload", file_path |-> file_path,
             as_task |-> as_task]

\* FileSystemAPI.stream_upload, fs.py:595-638
stream_upload(file_path, file_data, as_task) ==
  /\ put(<<"/api/fs/put">>,
         [data |-> file_data,
          headers |-> Append(UploadHeaders(file_path, as_task),
                             <<"Content-Type", "application/octet-stream">>)])
  /\ api' = [fn |-> "stream_upload", file_path |-> file_path,
             as_task |-> as_task]

\* the Content-Type the transport derives from the body it encodes: files=
\* makes a multipart body, json= a JSON body; bytes or a file object passed
\* as data= have none
MultipartContentType == "multipart/form-data; boundary=(boundary)"

BodyContentType(kwargs) ==
  CASE "files" \in DOMAIN kwargs -> MultipartContentType
    [] "json" \in DOMAIN kwargs -> "application/json"
    [] OTHER -> "(none)"

\* The Content-Type on the wire: session.request keeps a Content-Type given
\* in headers= and sets the one of the body only when none was given.
WireContentType(req) ==
  IF WireHas(req.headers, "Content-Type")
  THEN WireGet(req.headers, "Content-Type")
  ELSE BodyContentType(req.kwargs)

\* TaskAPI.get_info, admin/task.py:53-55
get_info(tid) ==
  /\ get(<<"/api/admin/task/upload/info">>,
         [params |-> PyDict([tid |-> PyStr(Str(tid))])])
  /\ api' = [fn |-> "get_info", tid |-> tid]

\* PublicAPI.ping, public.py:74-75
ping ==
  /\ get(<<"/ping">>, NoKwargs)
  /\ api' = [fn |-> "ping"]

\* FileSystemAPI.mkdir, fs.py:233-235
mkdir(path) ==
  /\ post(<<"/api/fs/mkdir">>, [json |-> PyDict([path |-> PyStr(Str(path))])])
  /\ api' = [fn |-> "mkdir", path |-> path]

\* TaskAPI.get_done and get_undone, admin/task.py:53-54 and 75-76
get_done ==
  /\ get(<<"/api/admin/task/upload/done">>, NoKwargs)
  /\ api' = [fn |-> "get_done"]

get_undone ==
  /\ get(<<"/api/admin/task/upload/undone">>, NoKwargs)
  /\ api' = [fn |-> "get_undone"]

\* DriverAPI.names, admin/driver.py:72-73
names ==
  /\ get(<<"/api/admin/driver/names">>, NoKwargs)
  /\ api' = [fn |-> "names"]

\* admin/setting.py:64-68: the query of SettingAPI.list
SettingParams(group, groups) ==
  LET params == EmptyMap
      with_group == IF group # PyNone
                    THEN MapSet(params, "group", PyStr(ToString(group.n)))
                    ELSE params
  IN PyDict(IF groups # PyNone
            THEN MapSet(with_group, "groups", groups)
            ELSE with_group)

\* SettingAPI.list, admin/setting.py:33-71
SettingAPI_list(group, groups) ==
  /\ get(<<"/api/admin/setting/list">>,
         [params |-> SettingParams(group, groups)])
  /\ api' = [fn |-> "SettingAPI.list"]

\* MetaAPI.delete, admin/meta.py:244-246
MetaAPI_delete(meta_id) ==
  /\ post(<<"/api/admin/meta/delete">>,
          [params |-> PyDict([id |-> PyStr(ToString(meta_id))])])
  /\ api' = [fn |-> "MetaAPI.delete"]

\* UserAPI.delete_cache, admin/user.py:282-284
delete_cache(username) ==
  /\ post(<<"/api/admin/user/del_cache">>,
          [params |-> PyDict([username |-> PyStr(Str(username))])])
  /\ api' = [fn |-> "delete_cache"]

\* StorageAPI.load_all, admin/storage.py:369-370
load_all ==
  /\ post(<<"/api/admin/storage/load_all">>, NoKwargs)
  /\ api' = [fn |-> "load_all"]

\* the resource group each wrapper belongs to
GroupOf(fn) ==
  CASE fn \in {"login", "login_hash"} -> "auth"
    [] fn \in {"form_upload", "stream_upload", "mkdir"} -> "fs"
    [] fn = "ping" -> "public"
    [] fn = "MetaAPI.delete" -> "admin.meta"
    [] fn = "delete_cache" -> "admin.user"
    [] fn = "load_all" -> "admin.storage"
    [] fn = "names" -> "admin.driver"
    [] fn = "SettingAPI.list" -> "admin.setting"
    [] fn \in {"get_info", "get_done", "get_undone"} -> "admin.task"

\* a faulty return: a call that failed in the transport is sent again
request_returns_retries(t) ==
  /\ pc = "waiting"
  /\ IF t.type = "raise"
     THEN /\ attempts' = attempts + 1
          /\ UNCHANGED <<pc, sent, transport, outcome, entry, api, result>>
     ELSE /\ transport' = t
          /\ outcome' = RequestOutcome(t)
          /\ result' = WrapperResult(api.fn, RequestOutcome(t))
          /\ sent' = NoRequest
          /\ pc' = "idle"
          /\ entry' = NoEntry
          /\ api' = [fn |-> api.fn]
          /\ UNCHANGED attempts
  /\ UNCHANGED <<base_url, timeout, token, last_set,
                 json_fault_is_request_exception, base_url_arg>>

\* a faulty return: a 401 answer makes the client forget its token
request_returns_drops_token(t) ==
  /\ pc = "waiting"
  /\ transport' = t
  /\ outcome' = RequestOutcome(t)
  /\ result' = WrapperResult(api.fn, RequestOutcome(t))
  /\ sent' = NoRequest
  /\ pc' = "idle"
  /\ entry' = NoEntry
  /\ api' = [fn |-> api.fn]
  /\ token' = IF t.type = "response" /\ t.response.status_code = 401
              THEN PyNone ELSE token
  /\ UNCHANGED <<base_url, timeout, last_set,
                 json_fault_is_request_exception, attempts, base_url_arg>>

\* a faulty return: after a timeout the client doubles its timeout
request_returns_backs_off(t) ==
  /\ pc = "waiting"
  /\ transport' = t
  /\ outcome' = RequestOutcome(t)
  /\ result' = WrapperResult(api.fn, RequestOutcome(t))
  /\ sent' = NoRequest
  /\ pc' = "idle"
  /\ entry' = NoEntry
  /\ api' = [fn |-> api.fn]
  /\ timeout' = IF t.type = "raise" /\ IsTimeout(t.exc)
                THEN 2 * timeout ELSE timeout
  /\ UNCHANGED <<base_url, token, last_set,
                 json_fault_is_request_exception, attempts, base_url_arg>>

\* a faulty return: a successful login keeps the token it was given
request_returns_stores_login_token(t) ==
  /\ pc = "waiting"
  /\ transport' = t
  /\ outcome' = RequestOutcome(t)
  /\ result' = WrapperResult(api.fn, RequestOutcome(t))
  /\ sent' = NoRequest
  /\ pc' = "idle"
  /\ entry' = NoEntry
  /\ api' = [fn |-> api.fn]
  /\ token' = LET r == WrapperResult(api.fn, RequestOutcome(t)) IN
              IF /\ api.fn \in {"login", "login_hash"}
                 /\ r.type = "return"
              THEN r.value.m["data"].m["token"]
              ELSE token
  /\ UNCHANGED <<base_url, timeout, last_set,
                 json_fault_is_request_exception, attempts, base_url_arg>>

\* lines 137-150: session.request returns or raises, and _request ends;
\* no path of _request leads back to session.request.  The wrapper that
\* made the call, if any, then ends too: result is what its caller gets,
\* and its arguments go out of scope.
request_returns(t) ==
  /\ pc = "waiting"
  /\ transport' = t
  /\ outcome' = RequestOutcome(t)
  /\ result' = WrapperResult(api.fn, RequestOutcome(t))
  /\ sent' = NoRequest
  /\ pc' = "idle"
  /\ entry' = NoEntry
  /\ api' = [fn |-> api.fn]
  /\ UNCHANGED <<base_url, timeout, token, last_set,
                 json_fault_is_request_exception, attempts, base_url_arg>>

\* an application that calls the core directly, from one thread: nothing
\* else runs while a call waits
Next ==
  \/ \E t \in Tokens : pc = "idle" /\ set_token(t) /\ UNCHANGED app
  \/ \E e \in Endpoints, k \in KwargsSet :
       get(e, k) /\ api' = NoApi /\ UNCHANGED app
  \/ \E e \in Endpoints, k \in KwargsSet :
       post(e, k) /\ api' = NoApi /\ UNCHANGED app
  \/ \E e \in Endpoints, k \in KwargsSet :
       put(e, k) /\ api' = NoApi /\ UNCHANGED app
  \/ \E e \in Endpoints, k \in KwargsSet :
       delete(e, k) /\ api' = NoApi /\ UNCHANGED app
  \/ \E t \in TransportOutcomes : request_returns(t) /\ UNCHANGED app

Spec == Init /\ [][Next]_vars

(***************************************************************************)
(* An application that uses the wrappers, and the core directly for plain  *)
(* paths, against a server that answers as an OpenList server does.        *)
(***************************************************************************)
\* OpenListClient(base_url): the timeout is the default, 30
InitAPI == \E b \in BaseUrlArgs : Construct(b, 30)

TaskInfoValue ==
  PyDict([id |-> PyStr("t-1"), name |-> PyStr("upload a"), state |-> PyInt(2),
          status |-> PyStr("done"), progress |-> PyInt(100),
          error |-> PyStr("")])

ApiPayloads ==
  {PyDict([code |-> PyInt(200), message |-> PyStr("success"),
           data |-> PyDict([token |-> PyStr("jwt")])]),
   PyDict([code |-> PyInt(200), message |-> PyStr("success"),
           data |-> PyDict([task |-> TaskInfoValue])]),
   PyDict([code |-> PyInt(401), message |-> PyStr("token is invalidated"),
           data |-> PyNone]),
   PyDict([code |-> PyInt(200), message |-> PyStr("success"),
           data |-> PyList(<<PyStr("Local"), PyStr("115 Cloud")>>)]),
   PyDict([code |-> PyInt(200), message |-> PyStr("success"), data |-> PyNone]),
   PyDict([code |-> PyInt(200), message |-> PyStr("success")]),
   PyStr("pong"),
   PyList(<<>>)}

ApiStatuses == {200, 401, 404, 500}

ApiTransportOutcomes ==
  {[type |-> "raise", exc |-> e] :
     e \in {ForeignError("ReadTimeout", "read timed out"),
            ForeignError("ConnectionError", "connection refused")}}
    \cup {[type |-> "response", response |-> Response(st, b)] :
            st \in ApiStatuses,
            b \in {json_dumps(v) : v \in ApiPayloads} \cup {<<>>}}

\* the JSON bodies an application posts
JsonBodies ==
  {PyDict([path |-> PyStr("/x")]),
   PyDict([names |-> PyList(<<PyStr("a"), PyStr("")>>), dir |-> PyStr("/"),
           overwrite |-> PyBool(FALSE), page |-> PyInt(0), note |-> PyNone,
           extra |-> PyDict(EmptyMap)]),
   PyDict(EmptyMap),
   PyList(<<PyInt(1), PyNone, PyDict([a |-> PyList(<<>>)])>>),
   PyStr(""),
   PyInt(0),
   PyBool(FALSE),
   PyNone}

MkdirPaths == {<<"/", "x">>, <<"/", "é", " ", "%">>}

\* What session.request puts on the wire for json=: nothing when it is None,
\* and its JSON text otherwise
WireBody(req) ==
  IF "json" \in DOMAIN req.kwargs /\ req.kwargs.json # PyNone
  THEN json_dumps(req.kwargs.json)
  ELSE <<>>

\* A server that echoes: it reads the body it received and answers 200 with
\* an envelope whose data is that value; a request without a JSON body gets
\* a 400.
EchoResponse(req) ==
  LET received == json_loads(WireBody(req)) IN
  IF received.ok
  THEN Response(200, json_dumps(PyDict([code |-> PyInt(200),
                                        message |-> PyStr("success"),
                                        data |-> received.v])))
  ELSE Response(400, json_dumps(PyDict([code |-> PyInt(400),
                                        message |-> PyStr("no body"),
                                        data |-> PyNone])))

\* the call on the wire is answered by the echoing server
echo_returns ==
  /\ pc = "waiting"
  /\ "json" \in DOMAIN sent.kwargs
  /\ request_returns([type |-> "response", response |-> EchoResponse(sent)])

\* __init__.py:11-12: response.data.token of the login that just returned,
\* which the application may pass to set_token
ReturnedTokens ==
  IF /\ result.type = "return"
     /\ result.value.t = "model"
     /\ result.value.cls = "LoginResponse"
  THEN {result.value.m["data"].m["token"].s}
  ELSE {}

NextAPI ==
  \/ \E t \in Tokens : pc = "idle" /\ set_token(t) /\ UNCHANGED app
  \/ \E t \in ReturnedTokens : pc = "idle" /\ set_token(t) /\ UNCHANGED app
  \/ \E p \in MkdirPaths : mkdir(p) /\ UNCHANGED app
  \/ get_done /\ UNCHANGED app
  \/ get_undone /\ UNCHANGED app
  \/ names /\ UNCHANGED app
  \/ \E group \in {PyNone, PyInt(1)}, groups \in {PyNone, PyStr("5,0")} :
       SettingAPI_list(group, groups) /\ UNCHANGED app
  \/ \E meta_id \in {1} : MetaAPI_delete(meta_id) /\ UNCHANGED app
  \/ \E u \in Usernames : delete_cache(u) /\ UNCHANGED app
  \/ load_all /\ UNCHANGED app
  \/ \E e \in Endpoints, b \in JsonBodies :
       post(e, [json |-> b]) /\ api' = NoApi /\ UNCHANGED app
  \/ echo_returns /\ UNCHANGED app
  \/ \E u \in Usernames, p \in Passwords, o \in OtpCodes :
       login(u, p, o) /\ UNCHANGED app
  \/ \E u \in Usernames, p \in Passwords, o \in OtpCodes :
       login_hash(u, p, o) /\ UNCHANGED app
  \/ \E f \in FilePaths, d \in FileObjects, t \in BOOLEAN :
       form_upload(f, d, t) /\ UNCHANGED app
  \/ \E f \in FilePaths, d \in FileObjects, t \in BOOLEAN :
       stream_upload(f, d, t) /\ UNCHANGED app
  \/ \E tid \in TaskIds : get_info(tid) /\ UNCHANGED app
  \/ ping /\ UNCHANGED app
  \/ \E e \in Endpoints : delete(e, NoKwargs) /\ api' = NoApi /\ UNCHANGED app
  \/ \E t \in ApiTransportOutcomes : request_returns(t) /\ UNCHANGED app

SpecAPI == InitAPI /\ [][NextAPI]_vars

(***************************************************************************)
(* An application that keeps the options of a call in an object of its     *)
(* own, makes a call with them, and makes the same call again with the     *)
(* same object, with or without a set_token in between; the server gives   *)
(* the second call the answer it gave the first.                           *)
(***************************************************************************)
InitReuse == Construct(<<"h">>, 30)

\* the options objects the application builds
ReuseOptions ==
  {NoKwargs} \cup {[headers |-> h] : h \in CallerHeaders}
    \cup {[json |-> b, headers |-> << <<"X-Trace", "1">> >>] :
            b \in {PyDict([path |-> PyStr("/x")]), PyList(<<PyInt(1), PyNone>>)}}

ReuseAnswers ==
  {[type |-> "raise", exc |-> ForeignError("ReadTimeout", "read timed out")]}
    \cup {[type |-> "response", response |-> Response(st, b)] :
            st \in {200, 401, 500},
            b \in {json_dumps(PyStr("pong")), <<TJunk>>}}

\* a faulty call: the merged headers are written into the caller's mapping
OptionsAfterCall_keeps_merged(kwargs) ==
  IF "headers" \in DOMAIN kwargs
  THEN [kwargs EXCEPT !.headers = RequestHeaders(kwargs)]
  ELSE kwargs

\* lines 130-143: the caller's objects after _request has used them.
\* **kwargs is a dict of _request's own, so pop removes 'headers' from that
\* dict only; headers is the fresh dict of _get_headers and update() reads
\* the caller's mapping; the body is passed on.  Nothing is written.
OptionsAfterCall(kwargs) == kwargs

\* client.get / post / put / delete, by name
VerbCall(verb, endpoint, kwargs) ==
  \/ verb = "get" /\ get(endpoint, kwargs)
  \/ verb = "post" /\ post(endpoint, kwargs)
  \/ verb = "put" /\ put(endpoint, kwargs)
  \/ verb = "delete" /\ delete(endpoint, kwargs)

\* what the application notes of the first call when it makes it
FirstCall(fn, verb, endpoint, kwargs, request) ==
  [phase |-> "first", fn |-> fn, entry |-> verb, endpoint |-> endpoint,
   built |-> kwargs, sent |-> request, touched |-> FALSE,
   transport |-> NoTransport, outcome |-> NoOutcome, result |-> NoOutcome]

first_call(verb, endpoint, kwargs) ==
  /\ first.phase \in {"none", "done"}
  /\ VerbCall(verb, endpoint, kwargs)
  /\ api' = NoApi
  /\ options' = OptionsAfterCall(kwargs)
  /\ first' = FirstCall("none", verb, endpoint, kwargs, sent')
  /\ UNCHANGED <<resources, thread>>

first_ping ==
  /\ first.phase \in {"none", "done"}
  /\ ping
  /\ options' = OptionsAfterCall(NoKwargs)
  /\ first' = FirstCall("ping", "get", <<"/ping">>, NoKwargs, sent')
  /\ UNCHANGED <<resources, thread>>

first_returns(t) ==
  /\ first.phase = "first"
  /\ request_returns(t)
  /\ first' = [first EXCEPT !.phase = "answered", !.transport = t,
                             !.outcome = outcome', !.result = result']
  /\ UNCHANGED <<resources, options, thread>>

\* set_token before the first call, or between the two
reuse_set_token(t) ==
  /\ pc = "idle"
  /\ first.phase \in {"none", "answered"}
  /\ set_token(t)
  /\ first' = IF first.phase = "answered"
              THEN [first EXCEPT !.touched = TRUE] ELSE first
  /\ UNCHANGED <<resources, options, thread>>

\* the same call again, with the options object as it is now
second_call ==
  /\ first.phase = "answered"
  /\ \/ first.fn = "ping" /\ ping
     \/ /\ first.fn = "none"
        /\ VerbCall(first.entry, first.endpoint, options)
        /\ api' = NoApi
  /\ options' = OptionsAfterCall(options)
  /\ first' = [first EXCEPT !.phase = "second"]
  /\ UNCHANGED <<resources, thread>>

second_returns ==
  /\ first.phase = "second"
  /\ request_returns(first.transport)
  /\ first' = [first EXCEPT !.phase = "done"]
  /\ UNCHANGED <<resources, options, thread>>

NextReuse ==
  \/ \E t \in Tokens : reuse_set_token(t)
  \/ \E verb \in {"get", "post", "put", "delete"}, k \in ReuseOptions :
       first_call(verb, <<"/", "p">>, k)
  \/ first_ping
  \/ \E t \in ReuseAnswers : first_returns(t)
  \/ second_call
  \/ second_returns

SpecReuse == InitReuse /\ [][NextReuse]_vars

(***************************************************************************)
(* Two threads on one client: one makes a call, the other calls set_token. *)
(* The interpreter may switch threads between any two reads or writes of   *)
(* an attribute, so the call is taken apart into the steps that read       *)
(* self.token: the test of line 64 and the assignment of line 65.          *)
(***************************************************************************)
InitRace == Construct(<<"h">>, 30)

RaceKwargs ==
  {NoKwargs, [headers |-> << <<"X-Trace", "1">> >>],
   [headers |-> << <<"Authorization", "own">> >>]}

RaceAnswers ==
  {[type |-> "raise", exc |-> ForeignError("ReadTimeout", "read timed out")],
   [type |-> "response", response |-> Response(200, json_dumps(PyStr("pong")))],
   [type |-> "response", response |-> Response(401, <<>>)]}

\* lines 129-130 and 61-63: the call starts; url is built and _get_headers
\* makes its dict.  held collects the values self.token has from here to
\* the dispatch.
race_begin(verb, method, endpoint, kwargs) ==
  /\ pc = "idle"
  /\ thread.pc = "none"
  /\ thread' = [pc |-> "check", verb |-> verb, method |-> method,
                endpoint |-> endpoint, kwargs |-> kwargs,
                headers |-> << <<"Content-Type", "application/json">> >>,
                held |-> {token}]
  /\ UNCHANGED <<base_url, timeout, token, pc, sent, transport, outcome,
                 last_set, json_fault_is_request_exception, attempts, entry,
                 api, result, base_url_arg, resources, options, first>>

\* line 64: `if self.token:`, the first read
race_check ==
  /\ thread.pc = "check"
  /\ thread' = [thread EXCEPT !.pc = IF Truthy(token) THEN "assign" ELSE "merge"]
  /\ UNCHANGED <<base_url, timeout, token, pc, sent, transport, outcome,
                 last_set, json_fault_is_request_exception, attempts, entry,
                 api, result, base_url_arg, resources, options, first>>

\* line 65: headers["Authorization"] = self.token, the second read
race_assign ==
  /\ thread.pc = "assign"
  /\ thread' = [thread EXCEPT !.pc = "merge",
                              !.headers = DictSet(@, "Authorization", token.s)]
  /\ UNCHANGED <<base_url, timeout, token, pc, sent, transport, outcome,
                 last_set, json_fault_is_request_exception, attempts, entry,
                 api, result, base_url_arg, resources, options, first>>

\* lines 133-143: the caller's headers are merged in and session.request
\* is called
race_dispatch ==
  /\ thread.pc = "merge"
  /\ pc = "idle"
  /\ sent' = [SentRequest(thread.method, thread.endpoint, thread.kwargs)
                EXCEPT !.headers = IF "headers" \in DOMAIN thread.kwargs
                                   THEN DictUpdate(thread.headers,
                                                   thread.kwargs.headers)
                                   ELSE thread.headers]
  /\ pc' = "waiting"
  /\ attempts' = 1
  /\ entry' = thread.verb
  /\ api' = NoApi
  /\ transport' = NoTransport
  /\ outcome' = NoOutcome
  /\ result' = NoOutcome
  /\ thread' = [thread EXCEPT !.pc = "sent"]
  /\ UNCHANGED <<base_url, timeout, token, last_set,
                 json_fault_is_request_exception, base_url_arg,
                 resources, options, first>>

race_returns(t) ==
  /\ thread.pc = "sent"
  /\ request_returns(t)
  /\ thread' = NoThread
  /\ UNCHANGED <<resources, options, first>>

\* the other thread: set_token at any moment
race_set_token(t) ==
  /\ set_token(t)
  /\ thread' = IF thread.pc \in {"check", "assign", "merge"}
               THEN [thread EXCEPT !.held = @ \cup {PyStr(t)}]
               ELSE thread
  /\ UNCHANGED <<resources, options, first>>

NextRace ==
  \/ \E t \in Tokens : race_set_token(t)
  \/ \E k \in RaceKwargs : race_begin("get", "GET", <<"/", "p">>, k)
  \/ \E k \in RaceKwargs : race_begin("post", "POST", <<"/", "q">>, k)
  \/ race_check
  \/ race_assign
  \/ race_dispatch
  \/ \E t \in RaceAnswers : race_returns(t)

SpecRace == InitRace /\ [][NextRace]_vars

(***************************************************************************)
(* Properties.                                                             *)
(***************************************************************************)
\* a call has ended and nothing has happened since
CallEnded == pc = "idle" /\ transport.type # "none"

\* the call ended with an HTTP response
GotResponse == CallEnded /\ transport.type = "response"

Is2xx(st) == 200 <= st /\ st < 300
Is5xx(st) == 500 <= st /\ st < 600

\* the call failed with an exception of class cls
FailedWith(cls) == outcome.type = "raise" /\ outcome.exc.cls = cls

\* C1: every call ends either with a parsed JSON value or with an
\* OpenListAPIError (or a subclass); no other exception reaches the caller.
C1_ValueOrClassifiedFailure ==
  CallEnded =>
    \/ outcome.type = "return"
    \/ outcome.type = "raise" /\ outcome.exc.cls \in OpenListErrorClasses

\* the kind the specification gives statuses 400, 401, 403, 404 and 5xx
C2_Kind(st) ==
  CASE st = 400 -> "ValidationError"
    [] st = 401 -> "AuthenticationError"
    [] st = 403 -> "AuthorizationError"
    [] st = 404 -> "NotFoundError"
    [] Is5xx(st) -> "ServerError"

\* C2: a response with status 400, 401, 403, 404 or 5xx makes the call fail
\* with ValidationError, AuthenticationError, AuthorizationError,
\* NotFoundError, ServerError respectively, and no value is returned.
C2_StatusSelectsKind ==
  GotResponse =>
    LET st == transport.response.status_code IN
    (st \in {400, 401, 403, 404} \/ Is5xx(st)) => FailedWith(C2_Kind(st))

C2_Witness ==
  /\ GotResponse
  /\ transport.response.status_code = 503
  /\ FailedWith("ServerError")

\* C3 as claimed: every response whose status is neither 2xx nor 400, 401,
\* 403, 404 nor 5xx makes the call fail with OpenListAPIError itself and
\* return no value.  Taken on the responses whose body is JSON, so that what
\* is seen is the handling of the status and not a fault of the decoding.
C3_OtherStatusIsGenericFailure ==
  GotResponse =>
    LET st == transport.response.status_code IN
    (/\ ~Is2xx(st) /\ st \notin {400, 401, 403, 404} /\ ~Is5xx(st)
     /\ json_loads(transport.response.body).ok)
      => FailedWith("OpenListAPIError")

\* C3 as amended: every 4xx status other than 400, 401, 403, 404 makes the
\* call fail with OpenListAPIError itself; a status outside 400..599 (1xx,
\* 3xx) is no failure by status: a JSON body is parsed and returned.
C3_Other4xxIsGenericFailure ==
  GotResponse =>
    LET st == transport.response.status_code IN
    /\ (400 <= st /\ st < 500 /\ st \notin {400, 401, 403, 404})
         => FailedWith("OpenListAPIError")
    /\ (st < 400 \/ st >= 600) =>
         \A p \in Payloads :
           transport.response.body = json_dumps(p) => outcome = Returned(p)

C3_Witness ==
  /\ GotResponse
  /\ transport.response.status_code = 409
  /\ FailedWith("OpenListAPIError")

\* C4: a 2xx response whose body is the JSON text of a payload returns
\* exactly that payload.
C4_ReturnsParsedBody ==
  GotResponse =>
    \A p \in Payloads :
      (Is2xx(transport.response.status_code)
         /\ transport.response.body = json_dumps(p))
        => outcome = Returned(p)

C4_Witness ==
  /\ GotResponse
  /\ transport.response.status_code = 200
  /\ outcome.type = "return"
  /\ outcome.value.t = "dict"
  /\ "data" \in DOMAIN outcome.value.m
  /\ outcome.value.m["data"] = PyDict([path |-> PyStr("/x")])

\* a call is on the wire
Waiting == pc = "waiting"

\* the caller passed a header of this name, in any letter case
CallerPassed(name) ==
  /\ "headers" \in DOMAIN sent.args
  /\ WireHas(sent.args.headers, name)

\* C5 as claimed: once set_token(t) has been called, every call is sent with
\* an Authorization header whose value is exactly t, whatever t is and whatever
\* headers the caller passes.
C5_EveryCallCarriesToken ==
  (Waiting /\ last_set # PyNone) =>
    /\ WireHas(sent.headers, "Authorization")
    /\ WireGet(sent.headers, "Authorization") = last_set.s

\* C5 as amended: once set_token(t) has been called with a non-empty t, every
\* call whose caller passes no Authorization header of their own (in any
\* letter case) is sent with an Authorization header whose value is exactly t.
C5_CallCarriesTokenUnlessOverridden ==
  (Waiting /\ last_set # PyNone /\ last_set.s # "" /\ ~CallerPassed("Authorization")) =>
    /\ DictHas(sent.headers, "Authorization")
    /\ DictGet(sent.headers, "Authorization") = last_set.s
    /\ WireGet(sent.headers, "Authorization") = last_set.s

C5_Witness ==
  /\ Waiting
  /\ last_set = PyStr(Tok(1))
  /\ "headers" \in DOMAIN sent.args
  /\ sent.args.headers # <<>>
  /\ ~CallerPassed("Authorization")
  /\ WireGet(sent.headers, "Authorization") = Tok(1)

\* C6: when session.request raises before any response, the call fails with
\* NetworkError, with status_code and response unset.
C6_TransportFaultIsNetworkError ==
  (CallEnded /\ transport.type = "raise") =>
    /\ FailedWith("NetworkError")
    /\ outcome.exc.status_code = PyNone
    /\ outcome.exc.response = PyNone

C6_Witness ==
  /\ CallEnded
  /\ transport.type = "raise"
  /\ transport.exc.cls = "TooManyRedirects"
  /\ FailedWith("NetworkError")

\* the failure kinds that are selected by an HTTP status
StatusKinds == OpenListErrorClasses \ {"NetworkError"}

\* C7: a failure of a kind other than NetworkError carries the status code of
\* the response it was classified from, and that response.
C7_StatusFailureCarriesStatus ==
  (CallEnded /\ outcome.type = "raise" /\ outcome.exc.cls \in StatusKinds) =>
    /\ transport.type = "response"
    /\ outcome.exc.status_code = PyInt(transport.response.status_code)
    /\ outcome.exc.response = transport.response

C7_Witness ==
  /\ CallEnded
  /\ FailedWith("NotFoundError")
  /\ outcome.exc.status_code = PyInt(404)
  /\ outcome.exc.response.body # <<>>

\* the payloads that are JSON objects with a `message` field
WithMessage == {p \in Payloads : p.t = "dict" /\ "message" \in DOMAIN p.m}

\* C8: on a failing status the failure's message is the body's `message`
\* field when the body is a JSON object that has one, and the status-line
\* text of the HTTPError otherwise.
C8_MessageFromBodyOrStatusLine ==
  (GotResponse /\ raise_for_status(transport.response)) =>
    /\ outcome.type = "raise"
    /\ \A p \in WithMessage :
         transport.response.body = json_dumps(p)
           => outcome.exc.message = p.m["message"]
    /\ (\A p \in WithMessage : transport.response.body # json_dumps(p))
         => outcome.exc.message = PyStr(HTTPErrorText(transport.response))

C8_Witness ==
  /\ GotResponse
  /\ transport.response.status_code = 401
  /\ FailedWith("AuthenticationError")
  /\ outcome.exc.message = PyStr("token is invalidated")

C8_WitnessFallback ==
  /\ GotResponse
  /\ transport.response.body = <<TJunk>>
  /\ FailedWith("ServerError")
  /\ outcome.exc.message = PyStr("502 Server Error")

\* the headers the caller passed with the call on the wire
CallerDict == IF "headers" \in DOMAIN sent.args THEN sent.args.headers ELSE <<>>

\* C9 as claimed: the headers sent are Content-Type application/json unless
\* the caller replaces it, every header the caller passed, and an
\* Authorization header equal to the stored credential if and only if a
\* credential is set; with no credential and no Authorization header from the
\* caller, none is sent.
C9_HeadersAsClaimed ==
  Waiting =>
    /\ ~CallerPassed("Content-Type")
         => WireGet(sent.headers, "Content-Type") = "application/json"
    /\ \A i \in 1..Len(CallerDict) :
         /\ DictHas(sent.headers, CallerDict[i][1])
         /\ DictGet(sent.headers, CallerDict[i][1]) = CallerDict[i][2]
    /\ (/\ WireHas(sent.headers, "Authorization")
        /\ token.t = "str"
        /\ WireGet(sent.headers, "Authorization") = token.s) <=> Truthy(token)
    /\ (~Truthy(token) /\ ~CallerPassed("Authorization"))
         => ~WireHas(sent.headers, "Authorization")

\* C9 as amended: the headers sent are Content-Type application/json unless
\* the caller replaces it, every header the caller passed, and nothing else
\* but Authorization; when the caller passes no Authorization header, one is
\* sent if and only if a non-empty credential is stored, and it equals the
\* credential; an Authorization header the caller passes replaces it.
C9_HeadersSent ==
  Waiting =>
    /\ \A i \in 1..Len(CallerDict) :
         /\ DictHas(sent.headers, CallerDict[i][1])
         /\ DictGet(sent.headers, CallerDict[i][1]) = CallerDict[i][2]
    /\ \A i \in 1..Len(sent.headers) :
         \/ sent.headers[i][1] \in {"Content-Type", "Authorization"}
         \/ DictHas(CallerDict, sent.headers[i][1])
    /\ DictHas(sent.headers, "Content-Type")
    /\ ~CallerPassed("Content-Type")
         => WireGet(sent.headers, "Content-Type") = "application/json"
    /\ ~DictHas(CallerDict, "Authorization") =>
         /\ DictHas(sent.headers, "Authorization") <=> Truthy(token)
         /\ Truthy(token) => DictGet(sent.headers, "Authorization") = token.s
    /\ ~CallerPassed("Authorization") =>
         /\ WireHas(sent.headers, "Authorization") <=> Truthy(token)
         /\ Truthy(token) => WireGet(sent.headers, "Authorization") = token.s
    /\ CallerPassed("Authorization") =>
         WireGet(sent.headers, "Authorization")
           = WireGet(CallerDict, "Authorization")

C9_Witness ==
  /\ Waiting
  /\ Truthy(token)
  /\ CallerDict = << <<"X-Trace", "1">>,
                     <<"Content-Type", "application/octet-stream">> >>
  /\ sent.headers = << <<"Content-Type", "application/octet-stream">>,
                       <<"Authorization", token.s>>, <<"X-Trace", "1">> >>

\* C10: the token accessor returns None on a new client and otherwise the
\* argument of the latest set_token; calls, whatever their outcome, leave it
\* alone.
C10_TokenIsLatestSet == client_token = last_set

C10_Witness ==
  /\ CallEnded
  /\ FailedWith("AuthenticationError")
  /\ last_set = PyStr("")
  /\ client_token = PyStr("")

\* C11: every call of _request hands exactly one request to the network:
\* while the call waits and when it has ended, whatever its outcome, the
\* call has invoked session.request once.  (So over any run the requests
\* handed to the network are as many as the calls of _request.)
C11_OneNetworkCallPerRequest == (Waiting \/ CallEnded) => attempts = 1

\* a call failed in the transport, the outcome after which a client with
\* retries would send again, and has ended after its one attempt
C11_Witness ==
  /\ CallEnded
  /\ transport.type = "raise"
  /\ IsTimeout(transport.exc)
  /\ attempts = 1

\* C12: no step changes base_url or timeout, and a step that changes the
\* token is a set_token step; so a call, from _request to its return,
\* leaves base_url, timeout and token as they were, and set_token changes
\* nothing of the session but the token.
C12_OnlySetTokenChangesSession ==
  [][/\ base_url' = base_url
     /\ timeout' = timeout
     /\ (token' # token => \E t \in Tokens : set_token(t))]_vars

\* a call made with a token ended with status 401, and the token is kept
C12_Witness ==
  /\ GotResponse
  /\ transport.response.status_code = 401
  /\ token = PyStr(Tok(1))

\* success, or the class of the failure
OutcomeKind(o) == IF o.type = "return" THEN "value" ELSE o.exc.cls

\* envelopes {code, message, data} with the codes and messages a server uses
Envelopes ==
  {PyDict([code |-> PyInt(c), message |-> PyStr(m), data |-> PyNone]) :
     c \in {200, 401, 403, 500},
     m \in {"success", "token is invalidated", "Internal Server Error"}}

IsEnvelope(v) == v.t = "dict" /\ "code" \in DOMAIN v.m /\ "message" \in DOMAIN v.m

\* C13: whether a call that got a response succeeds, and with which kind it
\* fails, depends on the HTTP status only: the same status with any other
\* code and message in the body's envelope gives the same kind; and a 2xx
\* response is returned as the parsed envelope whatever its code says.
C13_EnvelopeDoesNotClassify ==
  (GotResponse /\ json_loads(transport.response.body).ok
     /\ IsEnvelope(json_loads(transport.response.body).v)) =>
    /\ \A v \in Envelopes :
         OutcomeKind(RequestOutcome(
             [type |-> "response",
              response |-> Response(transport.response.status_code,
                                    json_dumps(v))]))
           = OutcomeKind(outcome)
    /\ Is2xx(transport.response.status_code) =>
         outcome = Returned(json_loads(transport.response.body).v)

\* status 200 with an envelope whose code is 401, returned as a value
C13_Witness ==
  /\ GotResponse
  /\ transport.response.status_code = 200
  /\ outcome.type = "return"
  /\ IsEnvelope(outcome.value)
  /\ outcome.value.m["code"] = PyInt(401)

\* C14: when the call a wrapper makes to the core fails, the wrapper's
\* caller gets that very failure: same class, message, status code and raw
\* response; the wrapper returns no value in its place.
C14_WrappersPropagateFailure ==
  (CallEnded /\ api.fn # "none" /\ outcome.type = "raise") => result = outcome

\* login was answered 401 and its caller got the core's AuthenticationError
C14_Witness ==
  /\ CallEnded
  /\ api.fn = "login"
  /\ FailedWith("AuthenticationError")
  /\ outcome.exc.status_code = PyInt(401)
  /\ result.type = "raise"

\* the SHA-256 digests of password + "-https://github.com/alist-org/alist",
\* in lowercase hex, as a reference implementation gives them
ReferenceDigest(p) ==
  CASE
    p = <<"p", "w", "1">> ->
       "310b75802dd4329f1a65c20f0e6cfe5dcf6f0f4e97bbd4a09e68e63eb011c653" []
    p = <<"p", "@", "s", "s", " ", "é">> ->
       "974c21d405a9ada4d2de80ce500b3b5aec9d3dd6b40377aa1330360b479e0793"

\* C15: login_hash posts to /api/auth/login/hash a payload whose password
\* field is the lowercase hex SHA-256 digest of the password followed by
\* "-https://github.com/alist-org/alist"; the username is sent as given and
\* no field of the payload holds the password itself.
C15_LoginHashSendsDigest ==
  (Waiting /\ api.fn = "login_hash") =>
    /\ sent.method = "POST"
    /\ sent.url = base_url \o <<"/api/auth/login/hash">>
    /\ sent.kwargs.json.m["password"] = PyStr(ReferenceDigest(api.password))
    /\ sent.kwargs.json.m["username"] = PyStr(Str(api.username))
    /\ \A k \in DOMAIN sent.kwargs.json.m :
         sent.kwargs.json.m[k] # PyStr(Str(api.password))

\* login_hash is waiting for the answer to a call made with a password that
\* has a character outside ASCII, and with a one-time code
C15_Witness ==
  /\ Waiting
  /\ api.fn = "login_hash"
  /\ api.password = <<"p", "@", "s", "s", " ", "é">>
  /\ "otp_code" \in DOMAIN sent.kwargs.json.m

UploadWaiting == Waiting /\ api.fn \in {"form_upload", "stream_upload"}

\* the paths of FilePaths percent-encoded with no character but letters,
\* digits and _ . - ~ left as it is, as a reference implementation gives them
ReferenceQuoted(f) ==
  CASE
    f = <<"/", "a">> -> "%2Fa" []
    f = <<"/", "d", " ", "e", "/", "f", "?", ".", "t", "x", "t">> -> "%2Fd%20e%2Ff%3F.txt" []
    f = <<"/", "é", "%", "+", "&", "#">> -> "%2F%C3%A9%25%2B%26%23"

\* C17: both uploads send the target path in the File-Path header,
\* percent-encoded with every reserved character encoded, "/" included,
\* and the as_task flag in the As-Task header as "true" or "false"; the
\* request has no query and no body but the file.
C17_UploadHeaders ==
  UploadWaiting =>
    /\ WireGet(sent.headers, "File-Path") = ReferenceQuoted(api.file_path)
    /\ WireGet(sent.headers, "As-Task")
         = (IF api.as_task THEN "true" ELSE "false")
    /\ DOMAIN sent.kwargs
         = (IF api.fn = "form_upload" THEN {"files"} ELSE {"data"})
    /\ api.fn = "form_upload" => sent.kwargs.files = [file |-> sent.args.files.file]
    /\ sent.url = base_url
                    \o (IF api.fn = "form_upload"
                        THEN <<"/api/fs/form">> ELSE <<"/api/fs/put">>)

\* form_upload waits with a path that has a space, a "?" and two "/"
C17_Witness ==
  /\ UploadWaiting
  /\ api.fn = "form_upload"
  /\ api.as_task
  /\ WireGet(sent.headers, "File-Path") = "%2Fd%20e%2Ff%3F.txt"

\* C18: form_upload is sent as multipart/form-data: the Content-Type on the
\* wire is the multipart type and not the default application/json;
\* stream_upload is sent with Content-Type application/octet-stream.
C18_UploadContentTypes ==
  UploadWaiting =>
    /\ api.fn = "form_upload" => WireContentType(sent) = MultipartContentType
    /\ api.fn = "stream_upload" =>
         WireContentType(sent) = "application/octet-stream"

\* the part of C18 that holds: the Content-Type of stream_upload
C18_StreamUploadIsOctetStream ==
  (UploadWaiting /\ api.fn = "stream_upload") =>
    WireContentType(sent) = "application/octet-stream"

\* b is a without its trailing "/" characters, all of them
WithoutTrailingSlashes(b, a) ==
  \E n \in 0..Len(a) :
    /\ b = SubSeq(a, 1, n)
    /\ \A i \in (n + 1)..Len(a) : a[i] = "/"
    /\ n = 0 \/ a[n] # "/"

\* C19: the base URL the client keeps is the constructor's argument without
\* its trailing "/" characters, and a call is sent to that base URL followed
\* by the path exactly as given; so a client built with "h", "h/" or "h//"
\* sends the same path to the same URL.
C19_TargetIsBasePlusPath ==
  /\ WithoutTrailingSlashes(base_url, base_url_arg)
  /\ Waiting =>
       /\ sent.url = base_url \o sent.endpoint
       /\ sent.url = <<"h">> \o sent.endpoint

\* a client built with "h//" is sending to the path "/p"
C19_Witness ==
  /\ Waiting
  /\ base_url_arg = <<"h", "/", "/">>
  /\ sent.endpoint = <<"/", "p">>
  /\ sent.url = <<"h", "/", "p">>

\* the method each of the four stands for
MethodOf(e) ==
  CASE e = "get" -> "GET"
    [] e = "post" -> "POST"
    [] e = "put" -> "PUT"
    [] e = "delete" -> "DELETE"

\* C20: get, post, put and delete are _request with the method fixed: the
\* step in which one of them is called sends the request that _request
\* sends for its method, the same path and the same options, and the step
\* in which the call ends yields what _request yields for the transport's
\* answer, whichever of the four was called.
C20_VerbsAreRequestWithMethod ==
  [][/\ (pc = "idle" /\ pc' = "waiting") =>
          sent' = SentRequest(MethodOf(entry'), sent'.endpoint, sent'.args)
     /\ (pc = "waiting" /\ pc' = "idle") =>
          outcome' = RequestOutcome(transport')]_vars

\* put is waiting for the answer to a call made with headers of the caller
C20_Witness ==
  /\ Waiting
  /\ entry = "put"
  /\ sent.method = "PUT"
  /\ "headers" \in DOMAIN sent.args
  /\ sent.endpoint = <<"/", "q">>

\* a call was refused before it reached the transport
Refused == pc = "idle" /\ outcome = Raised(DuplicateKeyword)

\* C21: every request handed to the transport carries the timeout the
\* client was constructed with, and carries it once: the options passed on
\* have no timeout of their own.  A call that tries to pass one is refused
\* with TypeError before anything is sent, so no call is ever issued with
\* another timeout.
C21_TimeoutIsTheSessions ==
  /\ Waiting =>
       /\ sent.timeout = timeout
       /\ "timeout" \notin DOMAIN sent.kwargs
       /\ "timeout" \notin DOMAIN sent.args
  /\ Refused => sent = NoRequest /\ transport = NoTransport /\ attempts = 0

\* a client constructed with timeout 5 is waiting on a call made with
\* headers of the caller
C21_Witness ==
  /\ Waiting
  /\ timeout = 5
  /\ sent.timeout = 5
  /\ "headers" \in DOMAIN sent.args

\* a call that passed timeout=1 was refused
C21_WitnessRefused == Refused /\ timeout = 5 /\ entry = "post"

\* C24: a call that got an HTTP response, whatever its status and body,
\* does not fail with NetworkError.
C24_ResponseIsNeverNetworkError == GotResponse => ~FailedWith("NetworkError")

\* the part of C24 that holds: a response that is not a 2xx (3xx, 600)
\* response with a body that is not JSON is never made a NetworkError
C24_JsonResponseIsNeverNetworkError ==
  (GotResponse /\ (raise_for_status(transport.response)
                     \/ json_loads(transport.response.body).ok))
    => ~FailedWith("NetworkError")

\* the kind each failing status selects
C25_Kind(st) ==
  CASE st = 400 -> "ValidationError"
    [] st = 401 -> "AuthenticationError"
    [] st = 403 -> "AuthorizationError"
    [] st = 404 -> "NotFoundError"
    [] Is5xx(st) -> "ServerError"
    [] OTHER -> "OpenListAPIError"

\* C25: on a failing status (400..599) the call fails with the kind the
\* status selects and with that status attached, whatever the body is:
\* empty, not JSON, a JSON array, string, number or null, an object without
\* `message` or with a null or non-string one; reading the body for the
\* message lets no fault of its own out.
C25_BodyDoesNotChangeKind ==
  (GotResponse /\ raise_for_status(transport.response)) =>
    /\ FailedWith(C25_Kind(transport.response.status_code))
    /\ outcome.exc.status_code = PyInt(transport.response.status_code)

\* a 404 whose body is a JSON array failed as NotFoundError
C25_Witness ==
  /\ GotResponse
  /\ transport.response.status_code = 404
  /\ json_loads(transport.response.body).ok
  /\ json_loads(transport.response.body).v.t = "list"
  /\ FailedWith("NotFoundError")
  /\ outcome.exc.status_code = PyInt(404)

\* a 429 whose body has a `message` that is no string failed as the
\* generic error, with that message kept as it is
C25_WitnessNonString ==
  /\ GotResponse
  /\ transport.response.status_code = 429
  /\ FailedWith("OpenListAPIError")
  /\ outcome.exc.message.t = "list"

\* the step in which the echoing server answers a post
EchoStep ==
  /\ pc = "waiting"
  /\ pc' = "idle"
  /\ sent.method = "POST"
  /\ "json" \in DOMAIN sent.args
  /\ transport'.type = "response"
  /\ Is2xx(transport'.response.status_code)
  /\ transport'.response = EchoResponse(sent)

\* C23: when post(path, json=b) is answered by the echoing server with a
\* 2xx envelope, the call returns the parsed envelope and its data equals
\* b, the body the caller passed; mkdir(path), which posts {"path": path},
\* returns a BaseResponse whose data is that object.
C23_EchoRoundTrip ==
  [][EchoStep =>
       /\ outcome'.type = "return"
       /\ outcome'.value.t = "dict"
       /\ "data" \in DOMAIN outcome'.value.m
       /\ outcome'.value.m["data"] = sent.args.json
       /\ api.fn = "mkdir" =>
            /\ result'.type = "return"
            /\ result'.value.m["data"] = PyDict([path |-> PyStr(Str(api.path))])]_vars

\* the echo of a body with a list, an empty string, false, 0, null and an
\* empty object among its members came back as it was posted
C23_Witness ==
  /\ GotResponse
  /\ entry = NoEntry
  /\ api = NoApi
  /\ outcome.type = "return"
  /\ outcome.value.t = "dict"
  /\ "data" \in DOMAIN outcome.value.m
  /\ outcome.value.m["data"].t = "dict"
  /\ DOMAIN outcome.value.m["data"].m
       = {"names", "dir", "overwrite", "page", "note", "extra"}
  /\ outcome.value.m["data"].m["note"] = PyNone

\* mkdir got its own payload back
C23_WitnessMkdir ==
  /\ GotResponse
  /\ api.fn = "mkdir"
  /\ result.type = "return"
  /\ result.value.m["data"] = PyDict([path |-> PyStr("/x")])

\* the wrappers of the model, one at least in every group
Wrappers ==
  {"login", "login_hash", "form_upload", "stream_upload", "mkdir", "ping",
   "MetaAPI.delete", "delete_cache", "load_all", "names", "SettingAPI.list",
   "get_info", "get_done", "get_undone"}

LoginSucceeded ==
  /\ CallEnded
  /\ api.fn \in {"login", "login_hash"}
  /\ result.type = "return"

\* C27: login and login_hash do not store the token they return: the
\* credential is always the argument of the latest set_token (None before
\* the first), also right after a successful login, and every call of a
\* wrapper is sent with that credential, or with none while it is not set.
C27_LoginDoesNotStoreToken ==
  /\ token = last_set
  /\ LoginSucceeded =>
       \/ token # result.value.m["data"].m["token"]
       \/ last_set = result.value.m["data"].m["token"]
  /\ (Waiting /\ api.fn \in Wrappers) =>
       IF Truthy(last_set)
       THEN /\ WireHas(sent.headers, "Authorization")
            /\ WireGet(sent.headers, "Authorization") = last_set.s
       ELSE ~WireHas(sent.headers, "Authorization")

\* login succeeded on a new client, and the client still has no credential
C27_Witness ==
  /\ LoginSucceeded
  /\ api.fn = "login"
  /\ result.value.m["data"].m["token"] = PyStr("jwt")
  /\ token = PyNone

\* the application has passed the token of the login to set_token
C27_WitnessSet ==
  /\ LoginSucceeded
  /\ token = PyStr("jwt")

ListAccessors == {"get_done", "get_undone", "names", "SettingAPI.list"}

\* a list accessor got a 2xx answer with an envelope
AccessorAnswered ==
  /\ GotResponse
  /\ api.fn \in ListAccessors
  /\ outcome.type = "return"
  /\ IsEnvelope(outcome.value)

\* C29: get_done, get_undone, names and SettingAPI.list return a list for
\* every successful envelope: its data when it has one, the empty list
\* otherwise; never a value that is no list.
C29_AccessorsReturnLists ==
  AccessorAnswered =>
    /\ result.type = "return"
    /\ result.value.t = "list"
    /\ "data" \notin DOMAIN outcome.value.m => result.value = PyList(<<>>)

\* the part of C29 that holds: data is returned when the envelope has the
\* key, whatever it is, and the empty list when it has not
C29_AccessorsReturnDataOrEmpty ==
  AccessorAnswered =>
    /\ result.type = "return"
    /\ result.value = (IF "data" \in DOMAIN outcome.value.m
                       THEN outcome.value.m["data"] ELSE PyList(<<>>))

\* C22: when the same call is made twice with no set_token in between and
\* the server answers both alike, the second request on the wire is the
\* first one again (method, URL, headers, timeout, options) and the second
\* call ends as the first did: same value, or same failure.
C22_SameCallSameResult ==
  /\ (first.phase = "second" /\ ~first.touched) => sent = first.sent
  /\ (first.phase = "done" /\ ~first.touched) =>
       /\ transport = first.transport
       /\ outcome = first.outcome
       /\ result = first.result

\* ping was called twice and returned "pong" both times
C22_Witness ==
  /\ first.phase = "done"
  /\ first.fn = "ping"
  /\ ~first.touched
  /\ first.result = Returned(PyStr("pong"))
  /\ result = Returned(PyStr("pong"))

\* both calls of a post with headers and a body timed out
C22_WitnessFailure ==
  /\ first.phase = "done"
  /\ ~first.touched
  /\ first.entry = "post"
  /\ "json" \in DOMAIN first.built
  /\ FailedWith("NetworkError")
  /\ first.outcome.type = "raise"

\* the caller passed an Authorization header in the options it built
BuiltWithAuthorization ==
  /\ "headers" \in DOMAIN first.built
  /\ WireHas(first.built.headers, "Authorization")

\* C30: the options object the caller passed is after the call, ended or
\* not, what the caller built: the headers mapping has neither the default
\* Content-Type nor the Authorization header written into it, and the body
\* is as it was.  So the same options used again after a set_token are
\* sent with the new credential.
C30_CallerOptionsUnchanged ==
  /\ first.phase # "none" => options = first.built
  /\ (first.phase = "second" /\ ~BuiltWithAuthorization) =>
       IF Truthy(token)
       THEN /\ WireHas(sent.headers, "Authorization")
            /\ WireGet(sent.headers, "Authorization") = token.s
       ELSE ~WireHas(sent.headers, "Authorization")

\* options with a header and a body, first sent with t1, are sent again
\* after set_token("t2") and carry t2
C30_Witness ==
  /\ first.phase = "second"
  /\ first.touched
  /\ "json" \in DOMAIN first.built
  /\ first.built.headers = << <<"X-Trace", "1">> >>
  /\ options = first.built
  /\ WireHas(first.sent.headers, "Authorization")
  /\ WireGet(first.sent.headers, "Authorization") = Tok(1)
  /\ WireHas(sent.headers, "Authorization")
  /\ WireGet(sent.headers, "Authorization") = Tok(2)

\* the headers of a call whose one read of the credential gave v
HeadersOfOneRead(v, kwargs) ==
  LET own == IF Truthy(v)
             THEN << <<"Content-Type", "application/json">>,
                     <<"Authorization", v.s>> >>
             ELSE << <<"Content-Type", "application/json">> >>
  IN IF "headers" \in DOMAIN kwargs THEN DictUpdate(own, kwargs.headers) ELSE own

\* a call made while another thread may call set_token is on the wire
InFlight == pc = "waiting" /\ thread.pc = "sent"

\* C28: under any interleaving of set_token with a call, the call reads the
\* credential once: the headers it sends are the headers of a call that
\* read one of the values the credential held between the start of the
\* call and its dispatch (so a call started after set_token(t), with no
\* later set_token, sends t), and a set_token after the dispatch leaves
\* the request in flight as it is.
C28_CredentialReadOnce ==
  InFlight => \E v \in thread.held : sent.headers = HeadersOfOneRead(v, thread.kwargs)

\* the part of C28 that holds: an Authorization value sent by the client
\* is a value the credential held between start and dispatch, and with one
\* value held only, the headers are those of that value
C28_SentValueWasHeld ==
  InFlight =>
    /\ (~CallerPassed("Authorization") /\ WireHas(sent.headers, "Authorization"))
         => PyStr(WireGet(sent.headers, "Authorization")) \in thread.held
    /\ \A v \in thread.held :
         thread.held = {v} => sent.headers = HeadersOfOneRead(v, thread.kwargs)

\* also holding: set_token during the flight does not change the request
C28_InFlightRequestIsFixed ==
  [][(pc = "waiting" /\ pc' = "waiting") => sent' = sent]_vars

\* a request went out with an empty Authorization header: the token was t1
\* at the test and "" at the assignment
C28_EmptyAuthorizationSent ==
  /\ InFlight
  /\ thread.kwargs = NoKwargs
  /\ WireHas(sent.headers, "Authorization")
  /\ WireGet(sent.headers, "Authorization") = ""

=============================================================================
